---- MODULE Spec2Model ----
(***************************************************************************)
(* ReportPage (Binaries/trashtrack/app/report/page.tsx): the "report       *)
(* waste" form.  The state is the component's useState cells; every event  *)
(* handler and every continuation after an await is one atomic step (the   *)
(* page runs on a single event loop and the setState calls of one          *)
(* continuation are committed together).  An async handler keeps the       *)
(* values of the render it was started in: those captured values are held  *)
(* in the task records of verifyTasks and submitTasks.                     *)
(***************************************************************************)
EXTENDS Integers, Sequences, FiniteSets, TLC

\* ---------------------------------------------------------------- bounds
MaxSubmits == 1     \* createReport calls made in one behaviour
MaxFilePicks == 2   \* files chosen in the file input in one behaviour

\* ---------------------------------------------------------------- values
NULL == [null |-> TRUE]

\* The files the user may pick in the file input.
F1 == [name |-> "a.png", type |-> "image/png", bytes |-> 1]
F2 == [name |-> "b.jpg", type |-> "image/jpeg", bytes |-> 2]
Files == {F1, F2}

\* FileReader.readAsDataURL: "data:<mime>;base64,<payload>".
DataURL(f) == [header |-> f.type, payload |-> f.bytes]

\* base64Data.split(",")[1] with mimeType: file.type (the request's image part).
ImagePart(f) == [data |-> DataURL(f).payload, mimeType |-> f.type]

\* Text the location input / the places widget can produce.
Locations == {"", "A"}

\* The user resolved by checkUser.
TheUser == [id |-> 1, email |-> "u@x", name |-> "Anonymous User"]

\* The draft a fresh page starts with, and the one a submission resets to.
EmptyReport == [location |-> "", type |-> "", amount |-> ""]

\* Replies of the AI endpoint: the request throws, or it returns a text.
\* Confidence is held in hundredths (0.87 is 87).
Replies ==
  { [kind |-> "throw"],
    [kind |-> "text", text |-> "I cannot analyze this"],
    [kind |-> "text", text |-> "null"],
    [kind |-> "text", text |-> "{wasteType:plastic}"],
    [kind |-> "text", text |-> "{wasteType:plastic,quantity:2kg,confidence:0}"],
    [kind |-> "text", text |-> "{wasteType:,quantity:2kg,confidence:87}"],
    [kind |-> "text", text |-> "{wasteType:plastic,quantity:2kg,confidence:87}"] }

\* JSON.parse on the texts above: ok = FALSE when it throws; otherwise the
\* value, an object given as the function from its keys, or null.
JSONParse(text) ==
  CASE text = "null" ->
         [ok |-> TRUE, isObject |-> FALSE]
    [] text = "{wasteType:plastic}" ->
         [ok |-> TRUE, isObject |-> TRUE,
          strs |-> [wasteType |-> "plastic"], nums |-> <<>>]
    [] text = "{wasteType:plastic,quantity:2kg,confidence:0}" ->
         [ok |-> TRUE, isObject |-> TRUE,
          strs |-> [wasteType |-> "plastic", quantity |-> "2kg"],
          nums |-> [confidence |-> 0]]
    [] text = "{wasteType:,quantity:2kg,confidence:87}" ->
         [ok |-> TRUE, isObject |-> TRUE,
          strs |-> [wasteType |-> "", quantity |-> "2kg"],
          nums |-> [confidence |-> 87]]
    [] text = "{wasteType:plastic,quantity:2kg,confidence:87}" ->
         [ok |-> TRUE, isObject |-> TRUE,
          strs |-> [wasteType |-> "plastic", quantity |-> "2kg"],
          nums |-> [confidence |-> 87]]
    [] OTHER -> [ok |-> FALSE]

\* parsedResult.wasteType && parsedResult.quantity && parsedResult.confidence
\* (reading a property of null throws, which the inner catch handles alike).
HasRequiredFields(p) ==
  /\ p.isObject
  /\ "wasteType" \in DOMAIN p.strs /\ p.strs["wasteType"] # ""
  /\ "quantity" \in DOMAIN p.strs /\ p.strs["quantity"] # ""
  /\ "confidence" \in DOMAIN p.nums /\ p.nums["confidence"] # 0

\* The object kept by setVerificationResult(parsedResult).
ResultOf(p) ==
  [wasteType |-> p.strs["wasteType"], quantity |-> p.strs["quantity"],
   confidence |-> p.nums["confidence"]]

\* TRUE when the verification attempt takes the success branch.
ReplyValid(r) ==
  /\ r.kind = "text"
  /\ JSONParse(r.text).ok
  /\ HasRequiredFields(JSONParse(r.text))

\* report.createdAt.toISOString().split("T")[0]
DayOf(createdAt) == createdAt.day

\* What getRecentReports may return on mount (most recent first).
StoredReport ==
  [id |-> 0, location |-> "A", wasteType |-> "paper", amount |-> "1kg",
   createdAt |-> [day |-> 1, time |-> 7]]
RecentPages == { <<StoredReport>> }

\* formattedReports: each row with createdAt cut to its day.
FormatRecent(rows) ==
  [i \in 1..Len(rows) |-> [rows[i] EXCEPT !.createdAt = DayOf(rows[i].createdAt)]]

\* The row createReport returns for its arguments; n is the row's id.
createReport(n, userId, location, type, amount) ==
  [id |-> n, userId |-> userId, location |-> location, wasteType |-> type,
   amount |-> amount, createdAt |-> [day |-> 2, time |-> n]]

\* formattedReport of handleSubmit.
FormatReport(report) ==
  [id |-> report.id, location |-> report.location,
   wasteType |-> report.wasteType, amount |-> report.amount,
   createdAt |-> DayOf(report.createdAt)]

\* Sequence s without its i-th element.
RemoveAt(s, i) == SubSeq(s, 1, i - 1) \o SubSeq(s, i + 1, Len(s))

\* ------------------------------------------------------------- variables
VARIABLES
  user,                \* useState user
  reports,             \* useState reports
  newReport,           \* useState newReport (the draft)
  file,                \* useState file
  preview,             \* useState preview
  verificationStatus,  \* useState verificationStatus
  verificationResult,  \* useState verificationResult
  isSubmitting,        \* useState isSubmitting
  searchBox,           \* useState searchBox
  checkUserPc,         \* position of the mount effect's checkUser
  readers,             \* files whose preview FileReader has not fired onload
  verifyTasks,         \* handleVerify calls suspended at an await
  submitTasks,         \* handleSubmit calls suspended at await createReport
  storeCalls,          \* number of createReport calls made so far
  resultFile,          \* history: the file verificationResult was computed from
  lastEvent,           \* history: the handler step taken last
  filePicks            \* history: number of files chosen so far

vars == <<user, reports, newReport, file, preview, verificationStatus,
          verificationResult, isSubmitting, searchBox, checkUserPc, readers,
          verifyTasks, submitTasks, storeCalls, resultFile, lastEvent,
          filePicks>>

formVars == <<newReport, file, preview, verificationStatus, verificationResult>>

Init ==
  /\ user = NULL
  /\ reports = <<>>
  /\ newReport = EmptyReport
  /\ file = NULL
  /\ preview = NULL
  /\ verificationStatus = "idle"
  /\ verificationResult = NULL
  /\ isSubmitting = FALSE
  /\ searchBox = NULL
  /\ checkUserPc = "start"
  /\ readers = {}
  /\ verifyTasks = <<>>
  /\ submitTasks = <<>>
  /\ storeCalls = 0
  /\ resultFile = NULL
  /\ lastEvent = "init"
  /\ filePicks = 0


\* ------------------------------------------------- mount effect: checkUser
\* localStorage has no "userEmail": router.push("/login"), no store is called.
CheckUserNoEmail ==
  /\ checkUserPc = "start"
  /\ checkUserPc' = "redirected"
  /\ lastEvent' = "other"
  /\ UNCHANGED <<filePicks, user, reports, formVars, isSubmitting, searchBox, readers,
                 verifyTasks, submitTasks, storeCalls, resultFile>>

\* getUserByEmail (or createUser) resolved: setUser(user).
CheckUserSetUser ==
  /\ checkUserPc = "start"
  /\ user' = TheUser
  /\ checkUserPc' = "recent"
  /\ lastEvent' = "other"
  /\ UNCHANGED <<filePicks, reports, formVars, isSubmitting, searchBox, readers,
                 verifyTasks, submitTasks, storeCalls, resultFile>>

\* getRecentReports resolved: setReports(formattedReports).
CheckUserSetReports ==
  /\ checkUserPc = "recent"
  /\ \E rows \in RecentPages : reports' = FormatRecent(rows)
  /\ checkUserPc' = "done"
  /\ lastEvent' = "other"
  /\ UNCHANGED <<filePicks, user, formVars, isSubmitting, searchBox, readers,
                 verifyTasks, submitTasks, storeCalls, resultFile>>

\* ------------------------------------------------------- location widgets
\* StandaloneSearchBox onLoad: setSearchBox(ref).
onLoad ==
  /\ searchBox = NULL
  /\ searchBox' = [ref |-> "searchBox"]
  /\ lastEvent' = "other"
  /\ UNCHANGED <<filePicks, user, reports, formVars, isSubmitting, checkUserPc, readers,
                 verifyTasks, submitTasks, storeCalls, resultFile>>

\* What searchBox.getPlaces() may hold: nothing, or places whose first entry
\* has a formatted_address or lacks one.
PlaceLists ==
  { <<>>, <<[formatted_address |-> "A"]>>, <<[name |-> "unnamed"]>> }

\* place.formatted_address || ""
AddressOf(place) ==
  IF "formatted_address" \in DOMAIN place THEN place.formatted_address ELSE ""

\* onPlacesChanged: the functional update setNewReport(prev => ...).
onPlacesChanged ==
  /\ searchBox # NULL
  /\ \E places \in PlaceLists :
       /\ Len(places) > 0
       /\ newReport' = [newReport EXCEPT !.location = AddressOf(places[1])]
  /\ lastEvent' = "other"
  /\ UNCHANGED <<filePicks, user, reports, file, preview, verificationStatus,
                 verificationResult, isSubmitting, searchBox, checkUserPc,
                 readers, verifyTasks, submitTasks, storeCalls, resultFile>>

\* The inputs that can raise onChange: "type" and "amount" are readOnly.
EditableInputs == {"location"}

\* handleInputChange: setNewReport({...newReport, [name]: value}).
handleInputChange ==
  /\ \E name \in EditableInputs, value \in Locations :
       newReport' = [newReport EXCEPT ![name] = value]
  /\ lastEvent' = "other"
  /\ UNCHANGED <<filePicks, user, reports, file, preview, verificationStatus,
                 verificationResult, isSubmitting, searchBox, checkUserPc,
                 readers, verifyTasks, submitTasks, storeCalls, resultFile>>

\* ------------------------------------------------------------ image intake
\* handleFileChange with a file chosen: setFile, and a FileReader is started.
handleFileChange ==
  /\ filePicks < MaxFilePicks
  /\ filePicks' = filePicks + 1
  /\ \E selectedFile \in Files :
       /\ file' = selectedFile
       /\ readers' = readers \cup {selectedFile}
  /\ lastEvent' = "other"
  /\ UNCHANGED <<user, reports, newReport, preview, verificationStatus,
                 verificationResult, isSubmitting, searchBox, checkUserPc,
                 verifyTasks, submitTasks, storeCalls, resultFile>>

\* reader.onload of handleFileChange: setPreview(result).
readerOnload ==
  /\ \E f \in readers :
       /\ preview' = DataURL(f)
       /\ readers' = readers \ {f}
  /\ lastEvent' = "other"
  /\ UNCHANGED <<filePicks, user, reports, newReport, file, verificationStatus,
                 verificationResult, isSubmitting, searchBox, checkUserPc,
                 verifyTasks, submitTasks, storeCalls, resultFile>>

\* ------------------------------------------------------------ handleVerify
\* disabled={!file || verificationStatus === "verifying"}
VerifyButtonEnabled == file # NULL /\ verificationStatus # "verifying"

\* Click on Verify: setVerificationStatus("verifying"); the call then waits
\* for readFileAsBase64 and generateContent, holding the file and the draft
\* of the render it was started in.
handleVerifyStart ==
  /\ VerifyButtonEnabled
  /\ verificationStatus' = "verifying"
  /\ verifyTasks' = Append(verifyTasks,
                           [file |-> file, image |-> ImagePart(file),
                            newReport |-> newReport])
  /\ lastEvent' = "other"
  /\ UNCHANGED <<filePicks, user, reports, newReport, file, preview, verificationResult,
                 isSubmitting, searchBox, checkUserPc, readers, submitTasks,
                 storeCalls, resultFile>>

\* Fault variant of VerifiedDraft: the two copied fields are exchanged.
VerifiedDraftSwapped(t, r) ==
  [t.newReport EXCEPT !.type = r.quantity, !.amount = r.wasteType]

\* The draft written by a successful verification of task t with result r:
\* setNewReport({...newReport, type: wasteType, amount: quantity}).
VerifiedDraft(t, r) ==
  [t.newReport EXCEPT !.type = r.wasteType, !.amount = r.quantity]

\* The reply parsed with all three fields truthy.
handleVerifySuccess ==
  /\ \E i \in 1..Len(verifyTasks), reply \in Replies :
       /\ ReplyValid(reply)
       /\ LET parsedResult == ResultOf(JSONParse(reply.text)) IN
            /\ verificationResult' = parsedResult
            /\ verificationStatus' = "success"
            /\ newReport' = VerifiedDraft(verifyTasks[i], parsedResult)
            /\ resultFile' = verifyTasks[i].file
       /\ verifyTasks' = RemoveAt(verifyTasks, i)
  /\ lastEvent' = "verifySuccess"
  /\ UNCHANGED <<filePicks, user, reports, file, preview, isSubmitting, searchBox,
                 checkUserPc, readers, submitTasks, storeCalls>>

\* Fault variant of handleVerifyFailure: the failure branch also clears the
\* verified fields, writing the draft of the render the call started in.
handleVerifyFailureClearsDraft ==
  /\ \E i \in 1..Len(verifyTasks), reply \in Replies :
       /\ ~ReplyValid(reply)
       /\ newReport' = [verifyTasks[i].newReport EXCEPT !.type = "", !.amount = ""]
       /\ verifyTasks' = RemoveAt(verifyTasks, i)
  /\ verificationStatus' = "failure"
  /\ lastEvent' = "verifyFailure"
  /\ UNCHANGED <<filePicks, user, reports, file, preview, verificationResult,
                 isSubmitting, searchBox, checkUserPc, readers, submitTasks,
                 storeCalls, resultFile>>

\* The request threw, the text is no JSON, or a required field is missing.
handleVerifyFailure ==
  /\ \E i \in 1..Len(verifyTasks), reply \in Replies :
       /\ ~ReplyValid(reply)
       /\ verifyTasks' = RemoveAt(verifyTasks, i)
  /\ verificationStatus' = "failure"
  /\ lastEvent' = "verifyFailure"
  /\ UNCHANGED <<filePicks, user, reports, newReport, file, preview, verificationResult,
                 isSubmitting, searchBox, checkUserPc, readers, submitTasks,
                 storeCalls, resultFile>>

\* ------------------------------------------------------------ handleSubmit
\* disabled={isSubmitting} on the submit button; the form's one editable
\* required input must be filled for the submit event to be raised.
SubmitButtonEnabled == ~isSubmitting /\ newReport.location # ""

\* Fault variant of SubmitAllowed: the verification check is missing.
SubmitAllowedWithoutVerification == user # NULL

\* The negation of: verificationStatus !== "success" || !user
SubmitAllowed == verificationStatus = "success" /\ user # NULL

\* The guard fails: toast.error and return.
handleSubmitRejected ==
  /\ SubmitButtonEnabled
  /\ ~SubmitAllowed
  /\ lastEvent' = "submitRejected"
  /\ UNCHANGED <<filePicks, user, reports, formVars, isSubmitting, searchBox,
                 checkUserPc, readers, verifyTasks, submitTasks, storeCalls,
                 resultFile>>

\* The guard passes: setIsSubmitting(true) and createReport is called with
\* the values of this render; the call then waits for the store.
handleSubmitStart ==
  /\ SubmitButtonEnabled
  /\ SubmitAllowed
  /\ storeCalls < MaxSubmits
  /\ isSubmitting' = TRUE
  /\ storeCalls' = storeCalls + 1
  /\ submitTasks' = Append(submitTasks,
       [call |-> storeCalls + 1,
        userId |-> user.id,
        location |-> newReport.location,
        type |-> newReport.type,
        amount |-> newReport.amount,
        imageUrl |-> preview,
        verificationResult |-> verificationResult,
        reports |-> reports])
  /\ lastEvent' = "submitStart"
  /\ UNCHANGED <<filePicks, user, reports, formVars, searchBox, checkUserPc, readers,
                 verifyTasks, resultFile>>

\* Fault variant of ReportsAfterSubmit: the new report is put last.
ReportsAfterSubmitAppended(t, report) == t.reports \o <<FormatReport(report)>>

\* The list written after createReport returned report to task t:
\* setReports([formattedReport, ...reports]).
ReportsAfterSubmit(t, report) == <<FormatReport(report)>> \o t.reports

\* createReport returned: prepend, reset the form, toast.success, and the
\* finally block's setIsSubmitting(false).
handleSubmitSuccess ==
  /\ \E i \in 1..Len(submitTasks) :
       LET t == submitTasks[i]
           report == createReport(t.call, t.userId, t.location, t.type, t.amount)
       IN /\ reports' = ReportsAfterSubmit(t, report)
          /\ submitTasks' = RemoveAt(submitTasks, i)
  /\ newReport' = EmptyReport
  /\ file' = NULL
  /\ preview' = NULL
  /\ verificationStatus' = "idle"
  /\ verificationResult' = NULL
  /\ resultFile' = NULL
  /\ isSubmitting' = FALSE
  /\ lastEvent' = "submitSuccess"
  /\ UNCHANGED <<filePicks, user, searchBox, checkUserPc, readers, verifyTasks,
                 storeCalls>>

\* createReport (or the formatting of its result) threw: console.error,
\* toast.error, and the finally block's setIsSubmitting(false).
handleSubmitFailure ==
  /\ \E i \in 1..Len(submitTasks) : submitTasks' = RemoveAt(submitTasks, i)
  /\ isSubmitting' = FALSE
  /\ lastEvent' = "submitFailure"
  /\ UNCHANGED <<filePicks, user, reports, formVars, searchBox, checkUserPc, readers,
                 verifyTasks, storeCalls, resultFile>>

\* ----------------------------------------------------------- specification
Next ==
  \/ CheckUserNoEmail
  \/ CheckUserSetUser
  \/ CheckUserSetReports
  \/ onLoad
  \/ onPlacesChanged
  \/ handleInputChange
  \/ handleFileChange
  \/ readerOnload
  \/ handleVerifyStart
  \/ handleVerifySuccess
  \/ handleVerifyFailure
  \/ handleSubmitRejected
  \/ handleSubmitStart
  \/ handleSubmitSuccess
  \/ handleSubmitFailure

Spec == Init /\ [][Next]_vars

\* ------------------------------------------------------------ properties
\* The verification results a valid reply can produce.
ValidResults ==
  { ResultOf(JSONParse(r.text)) : r \in {q \in Replies : ReplyValid(q)} }

\* C1: handleSubmit calls createReport only when, at the moment submit is
\* triggered, verificationStatus is "success" and user is not null; a submit
\* triggered in any other state makes no store call and leaves the draft,
\* file, preview, verification result, status and reports list unchanged.
C1_SubmitGated ==
  [][ /\ (storeCalls' # storeCalls \/ Len(submitTasks') > Len(submitTasks))
           => (verificationStatus = "success" /\ user # NULL)
      /\ (lastEvent' = "submitRejected")
           => /\ ~(verificationStatus = "success" /\ user # NULL)
              /\ storeCalls' = storeCalls
              /\ submitTasks' = submitTasks
              /\ UNCHANGED <<newReport, file, preview, verificationResult,
                             verificationStatus, reports>>
      /\ (lastEvent' \in {"submitRejected", "submitStart"}
          /\ ~(verificationStatus = "success" /\ user # NULL))
           => /\ storeCalls' = storeCalls
              /\ UNCHANGED <<newReport, file, preview, verificationResult,
                             verificationStatus, reports>>
    ]_vars

\* C1 witness: a submit was rejected for the missing user although the
\* verification had succeeded.
C1_Witness ==
  /\ lastEvent = "submitRejected"
  /\ user = NULL
  /\ verificationStatus = "success"

\* C2: a verification attempt that ends in failure sets verificationStatus
\* to "failure" and leaves every field of the draft as it was just before.
C2_FailureKeepsDraft ==
  [][ lastEvent' = "verifyFailure"
        => /\ verificationStatus' = "failure"
           /\ newReport' = newReport ]_vars

\* C2 witness: an attempt failed while the draft held a verified type and a
\* location typed by the user.
C2_Witness ==
  /\ lastEvent = "verifyFailure"
  /\ verificationStatus = "failure"
  /\ newReport.type # ""
  /\ newReport.location # ""

\* C3: with clicks accepted only on enabled buttons, at most one
\* verification and at most one submission are in flight at any time.
C3_NoDuplicateInFlight ==
  /\ Len(verifyTasks) <= 1
  /\ Len(submitTasks) <= 1

\* C4: a verification and a submission are never in flight together.
C4_NoVerifyDuringSubmit ==
  ~(Len(verifyTasks) > 0 /\ Len(submitTasks) > 0)

\* C5: verificationStatus changes only along the lifecycle: to "verifying"
\* from idle, success or failure; to "success" or "failure" only from
\* "verifying"; to "idle" only by the reset of a successful submission.
C5_StatusLifecycle ==
  [][ verificationStatus' # verificationStatus
        => \/ /\ verificationStatus' = "verifying"
              /\ verificationStatus \in {"idle", "success", "failure"}
           \/ /\ verificationStatus' \in {"success", "failure"}
              /\ verificationStatus = "verifying"
           \/ /\ verificationStatus' = "idle"
              /\ lastEvent' = "submitSuccess" ]_vars

\* C6: right after a submission succeeded, the report createReport returned
\* is first in the reports list, the draft is empty, file, preview and
\* verification result are null and the status is "idle".
C6_SubmitSuccessResets ==
  [][ lastEvent' = "submitSuccess"
        => /\ \E i \in 1..Len(submitTasks) :
                LET t == submitTasks[i] IN
                  /\ submitTasks' = RemoveAt(submitTasks, i)
                  /\ Len(reports') >= 1
                  /\ reports'[1] =
                       FormatReport(createReport(t.call, t.userId, t.location,
                                                 t.type, t.amount))
           /\ newReport' = [location |-> "", type |-> "", amount |-> ""]
           /\ file' = NULL
           /\ preview' = NULL
           /\ verificationResult' = NULL
           /\ verificationStatus' = "idle" ]_vars

\* C6 witness: a submission succeeded and the list holds the new report
\* ahead of an older one.
C6_Witness ==
  /\ lastEvent = "submitSuccess"
  /\ Len(reports) >= 2
  /\ reports[1].id = 1
  /\ reports[2] = FormatRecent(<<StoredReport>>)[1]

\* C7: a successful verification stores the parsed result and sets the
\* status to "success"; whenever the status is "success" the verification
\* result is not null and the draft's type and amount are its wasteType and
\* quantity.
C7_SuccessFillsDraft ==
  /\ lastEvent = "verifySuccess"
       => /\ verificationStatus = "success"
          /\ verificationResult \in ValidResults
  /\ verificationStatus = "success"
       => /\ verificationResult # NULL
          /\ newReport.type = verificationResult.wasteType
          /\ newReport.amount = verificationResult.quantity

\* C7 witness: a verification has just succeeded and filled the draft.
C7_Witness ==
  /\ lastEvent = "verifySuccess"
  /\ verificationStatus = "success"
  /\ newReport.type = "plastic"
  /\ newReport.amount = "2kg"

\* C8: when createReport throws, the draft, file, preview, verification
\* result and reports list are unchanged, the status is "success" afterwards
\* and isSubmitting is FALSE again.
C8_SubmitFailureKeepsForm ==
  [][ lastEvent' = "submitFailure"
        => /\ UNCHANGED <<newReport, file, preview, verificationResult, reports>>
           /\ verificationStatus' = "success"
           /\ isSubmitting' = FALSE ]_vars

\* C9: a successful verification completion leaves draft.location as it was
\* immediately before the completion step.
C9_SuccessKeepsLocation ==
  [][ lastEvent' = "verifySuccess"
        => newReport'.location = newReport.location ]_vars

\* C10: whenever createReport is called, a file is selected and the
\* verification result was produced by verifying that file.
C10_ReportMatchesFile ==
  [][ storeCalls' # storeCalls
        => /\ file # NULL
           /\ resultFile = file ]_vars

====
